---- MODULE Spec2Model ----
(***************************************************************************)
(* Random roll-call plugin (src/main.py): the roster loader                *)
(* read_names_from_file, the no-repeat selector of FloatingWindow          *)
(* (reset_shuffle / get_next_name), and the handlers that drive it         *)
(* (Plugin.execute, mouse press / release, show_random_name, reroll_name). *)
(*                                                                         *)
(* A name and a file's text are sequences of characters; a character is a  *)
(* one-token string.  "LF", "CR" and "SP" stand for line feed, carriage    *)
(* return and space.                                                       *)
(***************************************************************************)
EXTENDS Integers, Sequences, FiniteSets, TLC

\* ------------------------------------------------------------------ bounds
\* Longest roster file text (in characters) of the loader specification.
MaxFileLen == 5
\* Most lines of a roster file of the plugin specification.
MaxRoster == 2
\* get_next_name calls counted after a stand-alone reset_shuffle (the counter
\* saturates there).
MaxCalls == 6
\* read_names_from_file calls remembered (the most recent ones).
MaxReads == 2

\* ------------------------------------------------------------ characters
LF == "LF"
CR == "CR"
SP == "SP"
Letters == {"a", "b"}
Char == Letters \cup {SP, LF, CR}

\* str.isspace() over the modelled alphabet.
IsSpace(c) == c \in {SP, LF, CR}

\* ------------------------------------------------------- roster loader
\* default_names of read_names_from_file (written to a missing roster file).
default_names ==
    << <<"Xiao", "Ming">>, <<"Li", "Hua">>, <<"Zhang", "San">>,
       <<"Li", "Si">>, <<"Wang", "Wu">>, <<"Zhao", "Liu">> >>

\* The list returned when reading an existing file raises.
fallback_names ==
    << <<"Xiao", "Ming">>, <<"Li", "Hua">>, <<"Zhang", "San">>, <<"Li", "Si">> >>

\* join, with " " where "\n" belongs.
RECURSIVE join_spaces(_)
join_spaces(lines) ==
    IF lines = <<>> THEN <<>>
    ELSE IF Len(lines) = 1 THEN Head(lines)
    ELSE Head(lines) \o <<SP>> \o join_spaces(Tail(lines))

\* "\n".join(lines)
RECURSIVE join(_)
join(lines) ==
    IF lines = <<>> THEN <<>>
    ELSE IF Len(lines) = 1 THEN Head(lines)
    ELSE Head(lines) \o <<LF>> \o join(Tail(lines))

\* Text-mode write (newline=None): every "\n" becomes os.linesep.
RECURSIVE text_write(_, _)
text_write(s, linesep) ==
    IF s = <<>> THEN <<>>
    ELSE IF Head(s) = LF THEN linesep \o text_write(Tail(s), linesep)
    ELSE <<Head(s)>> \o text_write(Tail(s), linesep)

\* Text-mode read (universal newlines): "\r\n" and "\r" become "\n".
RECURSIVE text_read(_)
text_read(s) ==
    IF s = <<>> THEN <<>>
    ELSE IF Head(s) = CR
         THEN IF Len(s) >= 2 /\ s[2] = LF
              THEN <<LF>> \o text_read(Tail(Tail(s)))
              ELSE <<LF>> \o text_read(Tail(s))
    ELSE <<Head(s)>> \o text_read(Tail(s))

\* str.splitlines(): break at "\n", "\r" and "\r\n"; the breaks are dropped and
\* a trailing break opens no further line.  cur is the line being collected.
RECURSIVE splitlines_from(_, _)
splitlines_from(s, cur) ==
    IF s = <<>> THEN (IF cur = <<>> THEN <<>> ELSE <<cur>>)
    ELSE IF Head(s) = CR /\ Len(s) >= 2 /\ s[2] = LF
         THEN <<cur>> \o splitlines_from(Tail(Tail(s)), <<>>)
    ELSE IF Head(s) \in {LF, CR}
         THEN <<cur>> \o splitlines_from(Tail(s), <<>>)
    ELSE splitlines_from(Tail(s), cur \o <<Head(s)>>)

splitlines(s) == splitlines_from(s, <<>>)

\* str.lstrip() / str.rstrip() / str.strip()
RECURSIVE lstrip(_)
lstrip(s) ==
    IF s # <<>> /\ IsSpace(Head(s)) THEN lstrip(Tail(s)) ELSE s

RECURSIVE rstrip(_)
rstrip(s) ==
    IF s # <<>> /\ IsSpace(s[Len(s)]) THEN rstrip(SubSeq(s, 1, Len(s) - 1)) ELSE s

\* strip, trimming the left end only.
strip_left_only(s) == lstrip(s)

strip(s) == rstrip(lstrip(s))

\* strip_nonblank, keeping every line that is not empty before stripping
\* ("if name" for "if name.strip()").
RECURSIVE strip_keep_blank(_)
strip_keep_blank(names) ==
    IF names = <<>> THEN <<>>
    ELSE IF Head(names) # <<>>
         THEN <<strip(Head(names))>> \o strip_keep_blank(Tail(names))
    ELSE strip_keep_blank(Tail(names))

\* [name.strip() for name in names if name.strip()]
RECURSIVE strip_nonblank(_)
strip_nonblank(names) ==
    IF names = <<>> THEN <<>>
    ELSE IF strip(Head(names)) # <<>>
         THEN <<strip(Head(names))>> \o strip_nonblank(Tail(names))
    ELSE strip_nonblank(Tail(names))

\* The roster path as the loader finds it.  exists: os.path.exists(file_path);
\* readable: open(.., "r") and read() succeed; create: what open(.., "w") and
\* write do at a missing path ("ok", "denied": open raises, "ioerror": the file
\* is created and the write raises); linesep: os.linesep; data: the bytes.
NoFile(create, linesep) ==
    [exists |-> FALSE, readable |-> TRUE, create |-> create,
     linesep |-> linesep, data |-> <<>>]

File(readable, linesep, data) ==
    [exists |-> TRUE, readable |-> readable, create |-> "ok",
     linesep |-> linesep, data |-> data]

\* read_names_from_file(file_path), on the path's state f: the path's state
\* afterwards, whether the call returns or raises, the list returned and
\* whether logger.error was called.
read_names_from_file(f) ==
    IF ~f.exists
    THEN CASE f.create = "ok" ->
                [fs |-> File(TRUE, f.linesep,
                             text_write(join(default_names), f.linesep)),
                 outcome |-> "return", value |-> default_names, logged |-> FALSE]
           [] f.create = "denied" ->
                [fs |-> f, outcome |-> "raise", value |-> <<>>, logged |-> FALSE]
           [] OTHER ->
                [fs |-> File(TRUE, f.linesep, <<>>),
                 outcome |-> "raise", value |-> <<>>, logged |-> FALSE]
    ELSE IF f.readable
         THEN [fs |-> f, outcome |-> "return",
               value |-> strip_nonblank(splitlines(text_read(f.data))),
               logged |-> FALSE]
    ELSE [fs |-> f, outcome |-> "return", value |-> fallback_names,
          logged |-> TRUE]

\* ------------------------------------------------------ no-repeat selector
\* Python's None, as a record so that it compares with an object's fields.
None == [none |-> TRUE]

\* The string get_next_name returns for an empty roster.
EmptyRoster == <<"Ming", "Dan", "Wei", "Kong">>

\* QPoint() and QPoint.manhattanLength() of a difference of two points.
Origin == <<0, 0>>
Abs(n) == IF n < 0 THEN -n ELSE n
manhattanLength(p, q) == Abs(p[1] - q[1]) + Abs(p[2] - q[2])

\* The click threshold of mouseReleaseEvent.
ClickDistance == 15

\* random.shuffle: the orders it can leave a list of n items in, as the
\* bijections of 1..n.
Orders(n) == IF n = 0 THEN {<<>>} ELSE Permutations(1 .. n)

\* FloatingWindow.__init__ up to the call of load_names.
NewWindow ==
    [names |-> <<>>, shuffled_names |-> <<>>, current_index |-> 0,
     mouse_press_pos |-> Origin, result_dialog |-> None]

\* FloatingWindow.reset_shuffle, random.shuffle leaving the copy in order p.
reset_shuffle(self, p) ==
    [self EXCEPT !.shuffled_names = [i \in 1 .. Len(self.names) |-> self.names[p[i]]],
                 !.current_index = 0]

\* The orders random.shuffle is asked for when get_next_name runs on self: it is
\* called only when the queue is used up.
ShuffleOrders(self) ==
    IF self.shuffled_names # <<>> /\ self.current_index >= Len(self.shuffled_names)
    THEN Orders(Len(self.names))
    ELSE {[i \in 1 .. Len(self.names) |-> i]}

\* get_next_name, without the increment of current_index.
get_next_name_no_advance(self, p) ==
    IF self.shuffled_names = <<>>
    THEN [self |-> self, name |-> EmptyRoster, reshuffled |-> FALSE]
    ELSE LET full == self.current_index >= Len(self.shuffled_names)
             s1 == IF full THEN reset_shuffle(self, p) ELSE self
         IN [self |-> s1,
             name |-> s1.shuffled_names[s1.current_index + 1],
             reshuffled |-> full]

\* get_next_name, reshuffling one name early (">= len - 1").
get_next_name_early(self, p) ==
    IF self.shuffled_names = <<>>
    THEN [self |-> self, name |-> EmptyRoster, reshuffled |-> FALSE]
    ELSE LET full == self.current_index >= Len(self.shuffled_names) - 1
             s1 == IF full THEN reset_shuffle(self, p) ELSE self
         IN [self |-> [s1 EXCEPT !.current_index = @ + 1],
             name |-> s1.shuffled_names[s1.current_index + 1],
             reshuffled |-> full]

\* get_next_name, testing for the used-up queue before the empty one.
get_next_name_reset_first(self, p) ==
    LET full == self.current_index >= Len(self.shuffled_names)
        s1 == IF full THEN reset_shuffle(self, p) ELSE self
    IN IF s1.shuffled_names = <<>>
       THEN [self |-> s1, name |-> EmptyRoster, reshuffled |-> full]
       ELSE [self |-> [s1 EXCEPT !.current_index = @ + 1],
             name |-> s1.shuffled_names[s1.current_index + 1],
             reshuffled |-> full]

\* FloatingWindow.get_next_name: the window afterwards, the name returned and
\* whether reset_shuffle was called (current_index counts from 0, sequences
\* from 1).
get_next_name(self, p) ==
    IF self.shuffled_names = <<>>
    THEN [self |-> self, name |-> EmptyRoster, reshuffled |-> FALSE]
    ELSE LET full == self.current_index >= Len(self.shuffled_names)
             s1 == IF full THEN reset_shuffle(self, p) ELSE self
         IN [self |-> [s1 EXCEPT !.current_index = @ + 1],
             name |-> s1.shuffled_names[s1.current_index + 1],
             reshuffled |-> full]

\* ------------------------------------------------------------ UI handlers
\* A call into the UI toolkit may raise.  ui names the call that raises while a
\* handler runs: "none", FloatingWindow.init_ui ("init_ui"),
\* NameResultDialog(..) ("construct") or NameResultDialog.update_content
\* ("update").  The widgets' geometry, styling and animation are the toolkit's.

\* NameResultDialog(name, parent) followed by set_reroll_callback: the text of
\* name_label and the number of slots connected to reroll_btn.clicked.
NameResultDialog(name) == [label |-> name, reroll_callbacks |-> 0]

set_reroll_callback(dialog) == [dialog EXCEPT !.reroll_callbacks = @ + 1]

update_content(dialog, new_name) == [dialog EXCEPT !.label = new_name]

\* One get_next_name call as a handler reports it.
Call(r) == [name |-> r.name, reshuffled |-> r.reshuffled]

\* show_random_name, connecting reroll_name again each time the dialog is reused.
show_random_name_reconnects(self, p, ui) ==
    LET r == get_next_name(self, p)
        w == r.self
    IN IF w.result_dialog = None
       THEN IF ui = "construct"
            THEN [self |-> w, outcome |-> "caught", calls |-> <<Call(r)>>]
            ELSE [self |-> [w EXCEPT !.result_dialog =
                                set_reroll_callback(NameResultDialog(r.name))],
                  outcome |-> "ok", calls |-> <<Call(r)>>]
       ELSE IF ui = "update"
            THEN [self |-> w, outcome |-> "caught", calls |-> <<Call(r)>>]
            ELSE [self |-> [w EXCEPT !.result_dialog =
                                set_reroll_callback(update_content(@, r.name))],
                  outcome |-> "ok", calls |-> <<Call(r)>>]

\* FloatingWindow.show_random_name: the window afterwards, how the handler ended
\* ("ok", or "caught": its except clause logged the exception) and the
\* get_next_name calls it made.
show_random_name(self, p, ui) ==
    LET r == get_next_name(self, p)
        w == r.self
    IN IF w.result_dialog = None
       THEN IF ui = "construct"
            THEN [self |-> w, outcome |-> "caught", calls |-> <<Call(r)>>]
            ELSE [self |-> [w EXCEPT !.result_dialog =
                                set_reroll_callback(NameResultDialog(r.name))],
                  outcome |-> "ok", calls |-> <<Call(r)>>]
       ELSE IF ui = "update"
            THEN [self |-> w, outcome |-> "caught", calls |-> <<Call(r)>>]
            ELSE [self |-> [w EXCEPT !.result_dialog = update_content(@, r.name)],
                  outcome |-> "ok", calls |-> <<Call(r)>>]

\* FloatingWindow.reroll_name: it has no except clause, so an exception of
\* update_content leaves it ("raised").
reroll_name(self, p, ui) ==
    IF self.result_dialog # None
    THEN LET r == get_next_name(self, p)
             w == r.self
         IN IF ui = "update"
            THEN [self |-> w, outcome |-> "raised", calls |-> <<Call(r)>>]
            ELSE [self |-> [w EXCEPT !.result_dialog = update_content(@, r.name)],
                  outcome |-> "ok", calls |-> <<Call(r)>>]
    ELSE [self |-> self, outcome |-> "ok", calls |-> <<>>]

\* reroll_btn.clicked emitted: the n connected slots run in turn, until one
\* raises.
RECURSIVE emit_clicked(_, _, _, _)
emit_clicked(self, n, p, ui) ==
    IF n = 0 THEN [self |-> self, outcome |-> "ok", calls |-> <<>>]
    ELSE LET r == reroll_name(self, p, ui)
         IN IF r.outcome # "ok" THEN r
            ELSE LET rest == emit_clicked(r.self, n - 1, p, ui)
                 IN [self |-> rest.self, outcome |-> rest.outcome,
                     calls |-> r.calls \o rest.calls]

\* FloatingWindow.mousePressEvent (drag_pos is widget geometry).
mousePressEvent(self, button, pos) ==
    IF button = "Left" THEN [self EXCEPT !.mouse_press_pos = pos] ELSE self

\* FloatingWindow.mouseReleaseEvent.
mouseReleaseEvent(self, button, pos, p, ui) ==
    IF button = "Left" /\ manhattanLength(pos, self.mouse_press_pos) <= ClickDistance
    THEN show_random_name(self, p, ui)
    ELSE [self |-> self, outcome |-> "ok", calls |-> <<>>]

\* FloatingWindow.load_names on a window under construction: the path's state
\* afterwards, the window, and the call of read_names_from_file it made.
load_names(self, f, p) ==
    LET r == read_names_from_file(f)
    IN IF r.outcome = "raise"
       THEN [self |-> self, fs |-> r.fs, outcome |-> "raised", read |-> r]
       ELSE [self |-> reset_shuffle([self EXCEPT !.names = r.value], p),
             fs |-> r.fs, outcome |-> "ok", read |-> r]

\* FloatingWindow(): __init__ runs load_names, then init_ui.
FloatingWindow(f, p, ui) ==
    LET l == load_names(NewWindow, f, p)
    IN IF l.outcome = "ok" /\ ui = "init_ui" THEN [l EXCEPT !.outcome = "raised"]
       ELSE l

\* execute, rewinding the queue of the window that exists already.
execute_rewinds(fw, f, p, ui) ==
    IF fw = None
    THEN LET c == FloatingWindow(f, p, ui)
         IN IF c.outcome = "raised"
            THEN [floating_window |-> None, fs |-> c.fs, outcome |-> "caught",
                  read |-> c.read]
            ELSE [floating_window |-> c.self, fs |-> c.fs, outcome |-> "ok",
                  read |-> c.read]
    ELSE [floating_window |-> [fw EXCEPT !.current_index = 0], fs |-> f,
          outcome |-> "ok", read |-> None]

\* Plugin.execute, floating_window being fw: the attribute and the path's state
\* afterwards, how the handler ended, and the roster read it made (None when
\* the window exists already).
execute(fw, f, p, ui) ==
    IF fw = None
    THEN LET c == FloatingWindow(f, p, ui)
         IN IF c.outcome = "raised"
            THEN [floating_window |-> None, fs |-> c.fs, outcome |-> "caught",
                  read |-> c.read]
            ELSE [floating_window |-> c.self, fs |-> c.fs, outcome |-> "ok",
                  read |-> c.read]
    ELSE [floating_window |-> fw, fs |-> f, outcome |-> "ok", read |-> None]

\* The orders random.shuffle is asked for when execute runs.
LoadOrders(fw, f) ==
    IF fw = None /\ read_names_from_file(f).outcome = "return"
    THEN Orders(Len(read_names_from_file(f).value))
    ELSE {<<>>}

\* ------------------------------------------------------------------ state
\* fs: the roster path.  floating_window: Plugin.floating_window (None, or the
\* FloatingWindow's fields).  reads: the most recent read_names_from_file calls,
\* oldest first.  obs: what the last handler did.  run: the get_next_name calls
\* since the last reset_shuffle made outside get_next_name (calls, and resets
\* made inside them), and the names taken from the queue since the last
\* reset_shuffle (results).
VARIABLES fs, floating_window, reads, obs, run

vars == <<fs, floating_window, reads, obs, run>>

Min(a, b) == IF a < b THEN a ELSE b

LineSeps == {<<LF>>, <<CR, LF>>}

NoFiles == {NoFile(c, l) : c \in {"ok", "denied", "ioerror"}, l \in LineSeps}

\* Texts of at most n characters.
Texts(n) == UNION {[1 .. k -> Char] : k \in 0 .. n}

\* Sequences of at most n of the lines "a", "b" and " ".
RawLines == {<<"a">>, <<"b">>, <<SP>>}
Rosters(n) == UNION {[1 .. k -> RawLines] : k \in 0 .. n}

LoaderFiles ==
    NoFiles \cup {File(FALSE, <<LF>>, <<>>)}
            \cup {File(TRUE, <<LF>>, d) : d \in Texts(MaxFileLen)}

\* The paths the plugin specification starts from: a file of at most MaxRoster
\* lines, an unreadable file (the 4 fallback names), or a missing file that
\* cannot be written.  The first run on a missing, writable path is the loader
\* specification's: its 6 names have 720 queue orders.
PluginFiles ==
    {f \in NoFiles : f.create # "ok"}
        \cup {File(FALSE, <<LF>>, <<>>)}
        \cup {File(TRUE, <<LF>>, join(ls)) : ls \in Rosters(MaxRoster)}

Buttons == {"Left", "Right"}
\* Where the button goes down and up: each release point is 15 from one press
\* point and 16 from the other.
PressPoints == {Origin, <<16, 15>>}
ReleasePoints == {<<10, 5>>, <<6, 10>>}

NoRun == [calls |-> 0, resets |-> 0, results |-> <<>>]

Observed(event, outcome, calls, resets, distance) ==
    [event |-> event, outcome |-> outcome, calls |-> calls, resets |-> resets,
     distance |-> distance]

\* reads with one more call: the path was missing before it, and its result.
Remember(f, r) ==
    LET all == reads \o <<[missing |-> ~f.exists, outcome |-> r.outcome,
                           value |-> r.value, logged |-> r.logged]>>
    IN IF Len(all) > MaxReads THEN Tail(all) ELSE all

\* run after the get_next_name calls of one handler; queued: the roster is not
\* empty, so the names come from the queue.
RECURSIVE Tally(_, _, _)
Tally(t, calls, queued) ==
    IF calls = <<>> THEN t
    ELSE LET c == Head(calls)
             t1 == [calls |-> Min(t.calls + 1, MaxCalls),
                    resets |-> IF t.calls < MaxCalls /\ c.reshuffled
                               THEN t.resets + 1 ELSE t.resets,
                    results |-> IF queued
                                THEN (IF c.reshuffled THEN <<>> ELSE t.results)
                                     \o <<c.name>>
                                ELSE t.results]
         IN Tally(t1, Tail(calls), queued)

Reshuffles(calls) == Cardinality({i \in DOMAIN calls : calls[i].reshuffled})

Init ==
    /\ fs \in PluginFiles
    /\ floating_window = None
    /\ reads = <<>>
    /\ obs = Observed("init", "ok", <<>>, 0, 0)
    /\ run = NoRun

LoaderInit ==
    /\ fs \in LoaderFiles
    /\ floating_window = None
    /\ reads = <<>>
    /\ obs = Observed("init", "ok", <<>>, 0, 0)
    /\ run = NoRun

\* ---------------------------------------------------------------- actions
\* The host triggers the widget.
Execute ==
    \E ui \in {"none", "init_ui"} :
    \E p \in LoadOrders(floating_window, fs) :
        LET e == execute(floating_window, fs, p, ui)
            loaded == e.read # None /\ e.read.outcome = "return"
        IN /\ floating_window' = e.floating_window
           /\ fs' = e.fs
           /\ reads' = IF e.read = None THEN reads ELSE Remember(fs, e.read)
           /\ obs' = Observed("execute", e.outcome, <<>>,
                              IF loaded THEN 1 ELSE 0, 0)
           /\ run' = IF e.floating_window # floating_window THEN NoRun ELSE run

\* The handlers of a window that exists end in a window, an outcome and the
\* get_next_name calls made.
Handled(event, r, distance) ==
    /\ floating_window' = r.self
    /\ obs' = Observed(event,
                       IF r.outcome = "raised" THEN "escaped" ELSE r.outcome,
                       r.calls, Reshuffles(r.calls), distance)
    /\ run' = Tally(run, r.calls, floating_window.shuffled_names # <<>>)
    /\ UNCHANGED <<fs, reads>>

\* The toolkit calls that can raise while a handler of window self shows a name:
\* the dialog is built when there is none, and updated otherwise.
DialogFaults(self) ==
    IF self.result_dialog = None THEN {"none", "construct"} ELSE {"none", "update"}

MousePress ==
    /\ floating_window # None
    /\ \E button \in Buttons, pos \in PressPoints :
          Handled("press",
                  [self |-> mousePressEvent(floating_window, button, pos),
                   outcome |-> "ok", calls |-> <<>>], 0)

MouseRelease ==
    /\ floating_window # None
    /\ \E button \in Buttons, pos \in ReleasePoints :
       \E ui \in DialogFaults(floating_window) :
       \E p \in ShuffleOrders(floating_window) :
          Handled(IF button = "Left" THEN "release" ELSE "release_other",
                  mouseReleaseEvent(floating_window, button, pos, p, ui),
                  IF button = "Left"
                  THEN manhattanLength(pos, floating_window.mouse_press_pos)
                  ELSE 0)

\* The user presses the dialog's reroll button.
RerollClicked ==
    /\ floating_window # None
    /\ floating_window.result_dialog # None
    /\ \E ui \in DialogFaults(floating_window) :
       \E p \in ShuffleOrders(floating_window) :
          Handled("reroll_clicked",
                  emit_clicked(floating_window,
                               floating_window.result_dialog.reroll_callbacks,
                               p, ui), 0)

\* reroll_name called on the window.
RerollName ==
    /\ floating_window # None
    /\ \E ui \in DialogFaults(floating_window) :
       \E p \in ShuffleOrders(floating_window) :
          Handled("reroll_name", reroll_name(floating_window, p, ui), 0)

\* get_next_name called on the window.
GetNextName ==
    /\ floating_window # None
    /\ \E p \in ShuffleOrders(floating_window) :
          LET r == get_next_name(floating_window, p)
          IN Handled("get_next_name",
                     [self |-> r.self, outcome |-> "ok", calls |-> <<Call(r)>>], 0)

\* reset_shuffle called on the window.
ResetShuffle ==
    /\ floating_window # None
    /\ \E p \in Orders(Len(floating_window.names)) :
          /\ floating_window' = reset_shuffle(floating_window, p)
          /\ obs' = Observed("reset_shuffle", "ok", <<>>, 1, 0)
          /\ run' = NoRun
          /\ UNCHANGED <<fs, reads>>

\* read_names_from_file called on the roster path.
ReadNames ==
    LET r == read_names_from_file(fs)
    IN /\ fs' = r.fs
       /\ reads' = Remember(fs, r)
       /\ UNCHANGED <<floating_window, obs, run>>

Next ==
    \/ Execute
    \/ MousePress
    \/ MouseRelease
    \/ RerollClicked
    \/ RerollName
    \/ GetNextName
    \/ ResetShuffle

Spec == Init /\ [][Next]_vars

LoaderNext == ReadNames

LoaderSpec == LoaderInit /\ [][LoaderNext]_vars

\* ----------------------------------------------------------------- claims
Range(s) == {s[i] : i \in DOMAIN s}
Unique(s) == \A i, j \in DOMAIN s : s[i] = s[j] => i = j
Count(s, x) == Cardinality({i \in DOMAIN s : s[i] = x})
SameItems(s, t) ==
    /\ Len(s) = Len(t)
    /\ \A x \in Range(s) \cup Range(t) : Count(s, x) = Count(t, x)
Last(s) == s[Len(s)]

\* The names a roster text holds, read off the text itself: a name starts at
\* a character that is not white space and has only white space between it and
\* the line break (or the start of the text) before it, and runs to the last
\* such character before the next line break.
IsBreak(c) == c \in {LF, CR}
SameLine(t, i, j) == \A k \in i .. j : ~IsBreak(t[k])
NameStarts(t) ==
    {i \in DOMAIN t :
        /\ ~IsSpace(t[i])
        /\ \A k \in 1 .. i - 1 : SameLine(t, k, i) => IsSpace(t[k])}
NameEnd(t, i) ==
    CHOOSE j \in i .. Len(t) :
        /\ ~IsSpace(t[j])
        /\ SameLine(t, i, j)
        /\ \A k \in j + 1 .. Len(t) : SameLine(t, i, k) => IsSpace(t[k])
NamesIn(t) ==
    LET starts == NameStarts(t)
        nth(n) == CHOOSE i \in starts : Cardinality({j \in starts : j < i}) = n - 1
    IN [n \in 1 .. Cardinality(starts) |-> SubSeq(t, nth(n), NameEnd(t, nth(n)))]

Window == floating_window
Loaded == floating_window # None
Roster == floating_window.names
Dialog == floating_window.result_dialog

\* C1: for a roster of N >= 1 unique names, the first N get_next_name calls
\* after a reset_shuffle made outside get_next_name return names of the roster
\* without a repeat and without a reshuffle among them, and the N-th call
\* completes a permutation of the roster.
C1_CycleIsPermutation ==
    (/\ Loaded
     /\ Roster # <<>>
     /\ Unique(Roster)
     /\ run.calls <= Len(Roster)
     /\ run.calls < MaxCalls)
    => /\ run.resets = 0
       /\ Len(run.results) = run.calls
       /\ Unique(run.results)
       /\ Range(run.results) \subseteq Range(Roster)
       /\ (run.calls = Len(Roster) => SameItems(run.results, Roster))

C1_Witness ==
    /\ Loaded
    /\ Len(Roster) >= 4
    /\ Unique(Roster)
    /\ run.calls = Len(Roster)
    /\ Window.shuffled_names # Roster
    /\ obs.event = "release"

\* C2: for a roster of N >= 1 names, none of the first N get_next_name calls
\* after a reset_shuffle made outside get_next_name reshuffles, and the
\* (N+1)-th call reshuffles once, returns a name of the roster and leaves
\* current_index = 1.
C2_OneReshuffleAtExhaustion ==
    (/\ Loaded
     /\ Roster # <<>>
     /\ run.calls < MaxCalls)
    => /\ (run.calls <= Len(Roster) => run.resets = 0)
       /\ (run.calls = Len(Roster) + 1 =>
              /\ run.resets = 1
              /\ Len(run.results) = 1
              /\ run.results[1] \in Range(Roster)
              /\ run.results[1] # EmptyRoster
              /\ Window.current_index = 1)

C2_Witness ==
    /\ Loaded
    /\ Len(Roster) >= 2
    /\ run.calls = Len(Roster) + 1
    /\ run.resets = 1
    /\ obs.calls # <<>>
    /\ obs.calls[1].reshuffled

\* C3: with an empty roster every get_next_name call returns the empty-roster
\* string and reshuffles nothing, and roster, queue and cursor stay as loaded.
C3_EmptyRosterSentinel ==
    (Loaded /\ Roster = <<>>)
    => /\ Window.shuffled_names = <<>>
       /\ Window.current_index = 0
       /\ \A i \in DOMAIN obs.calls :
             obs.calls[i].name = EmptyRoster /\ ~obs.calls[i].reshuffled
       /\ (obs.calls # <<>> => obs.resets = 0)
       /\ run.resets = 0
       /\ run.results = <<>>

C3_Witness ==
    /\ Loaded
    /\ Roster = <<>>
    /\ fs.exists /\ fs.readable /\ LF \in Range(fs.data)
    /\ run.calls >= 3
    /\ obs.event = "get_next_name"
    /\ obs.calls = <<[name |-> EmptyRoster, reshuffled |-> FALSE]>>

\* C4, as claimed: every read_names_from_file call that returns returns a list
\* that is not empty.
C4_AlwaysNonEmpty ==
    \A i \in DOMAIN reads :
        reads[i].outcome = "return" => reads[i].value # <<>>

\* C4, amended: the list a read_names_from_file call returns is empty exactly
\* when the file was there, was read, and holds white space only.
C4_EmptyOnlyForBlankFile ==
    \A i \in DOMAIN reads :
        reads[i].outcome = "return" =>
            (reads[i].value = <<>> <=>
                /\ ~reads[i].missing
                /\ fs.readable
                /\ \A k \in DOMAIN fs.data : IsSpace(fs.data[k]))

C4_Witness ==
    /\ reads # <<>>
    /\ ~Last(reads).missing
    /\ Last(reads).outcome = "return"
    /\ Last(reads).value = <<>>
    /\ Len(fs.data) >= 3
    /\ LF \in Range(fs.data)

\* C5, as claimed: no read_names_from_file call raises; a failed read or write
\* is logged and a list is returned.
C5_NeverRaises ==
    \A i \in DOMAIN reads : reads[i].outcome = "return"

\* C6: a read_names_from_file call on a missing path that returns returns the 6
\* default names in order and leaves a file holding them one per line, and the
\* call after it returns the same list.
C6_DefaultsCreatedAndReread ==
    \A i \in DOMAIN reads :
        (reads[i].missing /\ reads[i].outcome = "return") =>
            /\ reads[i].value = default_names
            /\ Len(reads[i].value) = 6
            /\ fs.exists
            /\ NamesIn(fs.data) = default_names
            /\ (i < Len(reads) =>
                   /\ ~reads[i + 1].missing
                   /\ reads[i + 1].outcome = "return"
                   /\ reads[i + 1].value = reads[i].value)

C6_Witness ==
    /\ Len(reads) = 2
    /\ reads[1].missing
    /\ reads[1].outcome = "return"
    /\ reads[2].value = default_names
    /\ fs.linesep = <<CR, LF>>

\* C7, as claimed: no exception of a handler reaches the host.
C7_NothingReachesHost == obs.outcome # "escaped"

\* C8: a read_names_from_file call on a file that reads returns the names the
\* text holds: its lines with the white space around them removed, the blank
\* ones dropped, in the text's order.
C8_StrippedNonBlankLines ==
    \A i \in DOMAIN reads :
        (~reads[i].missing /\ fs.readable) =>
            /\ reads[i].outcome = "return"
            /\ reads[i].value = NamesIn(fs.data)

C8_Witness ==
    /\ reads # <<>>
    /\ ~Last(reads).missing
    /\ fs.readable
    /\ Len(Last(reads).value) = 2
    /\ Last(reads).value[1] = Last(reads).value[2]
    /\ Len(fs.data) = 5
    /\ fs.data[1] = SP
    /\ CR \in Range(fs.data)

\* C9: once the roster is loaded, current_index stays within 0..len(queue), the
\* queue holds the roster's names (each as often) and the roster is the list
\* read_names_from_file returned; a step changes queue or cursor only if its
\* handler ran get_next_name or reset_shuffle, and execute on a window that
\* exists reads nothing and changes nothing.
C9_State ==
    Loaded =>
        /\ Window.current_index \in 0 .. Len(Window.shuffled_names)
        /\ SameItems(Window.shuffled_names, Roster)
        /\ reads # <<>>
        /\ Last(reads).outcome = "return"
        /\ Roster = Last(reads).value

C9_Step ==
    Loaded =>
        /\ floating_window' # None
        /\ floating_window'.names = floating_window.names
        /\ (\/ floating_window'.shuffled_names # floating_window.shuffled_names
            \/ floating_window'.current_index # floating_window.current_index)
           => (obs'.calls # <<>> \/ obs'.event = "reset_shuffle")
        /\ obs'.event = "execute" =>
              floating_window' = floating_window /\ reads' = reads /\ fs' = fs

\* C9: C9_State holds in every reachable state and C9_Step of every step.
C9_SelectorStateInvariant == []C9_State /\ [][C9_Step]_vars

C9_Witness ==
    /\ Loaded
    /\ obs.event = "execute"
    /\ Len(Roster) >= 2
    /\ Window.current_index = Len(Window.shuffled_names)
    /\ run.resets >= 1
    /\ Dialog # None

\* C10: a left release within 15 of the press, and a press of the reroll button,
\* each run get_next_name once, and the dialog shows the name returned unless a
\* toolkit call raised; a left release farther than 15 and reroll_name without a
\* dialog run it not at all; one slot is connected to the reroll button.
C10_OneNamePerRequest ==
    /\ (obs.event = "release" /\ obs.distance <= 15) =>
           /\ Len(obs.calls) = 1
           /\ (obs.outcome = "ok" =>
                  Dialog # None /\ Dialog.label = obs.calls[1].name)
    /\ (obs.event = "release" /\ obs.distance > 15) => obs.calls = <<>>
    /\ obs.event = "reroll_clicked" =>
           /\ Len(obs.calls) = 1
           /\ Dialog # None
           /\ (obs.outcome = "ok" => Dialog.label = obs.calls[1].name)
    /\ obs.event = "reroll_name" =>
           IF Dialog = None THEN obs.calls = <<>>
           ELSE /\ Len(obs.calls) = 1
                /\ (obs.outcome = "ok" => Dialog.label = obs.calls[1].name)
    /\ (Loaded /\ Dialog # None) => Dialog.reroll_callbacks = 1

C10_Witness ==
    /\ obs.event = "reroll_clicked"
    /\ obs.outcome = "ok"
    /\ obs.calls[1].reshuffled
    /\ run.calls >= 5
    /\ Len(Roster) = 2

====
